---- MODULE Spec2Model ----
(***************************************************************************)
(* The three AWS Lambda handlers of the ACME bank chatbot                  *)
(*   AO  src/ACMEBankBotAccountOverview.py                                 *)
(*   TL  src/ACMEBankBotTransactionList.py                                 *)
(*   VF  src/AccountOverviewIntent_ValidationFunction.py                   *)
(* as one state machine.  One deployed function (fn) receives the request  *)
(* object `event`; a step runs the whole lambda_handler of that function   *)
(* on the object and leaves its return value (or the exception it raised)  *)
(* in `response`.  The handlers assign into event['currentIntent']         *)
(* ['slots'] in place, so `event` is part of the state.                    *)
(*                                                                         *)
(* Python values: a str is a TLA+ string, None among slot values is the    *)
(* reserved string None, a dict that may be None is a record               *)
(* [null |-> BOOLEAN, map |-> set of <<key, value>>].  Logging calls have  *)
(* no effect on the state and are left out; in VF the logger.debug calls   *)
(* of lines 81 and 90 lack their closing parenthesis and are read as the   *)
(* logging calls they are.                                                 *)
(***************************************************************************)
EXTENDS Integers, Sequences, FiniteSets, TLC

VARIABLES fn, store, event, request, response, ops

vars == <<fn, store, event, request, response, ops>>

\* total number of rows the account and transaction tables hold
MaxRows == 2

\* ------------------------------------------------------------ Python values

None == "<None>"

PyNone == [null |-> TRUE, map |-> {}]

PyDict(m) == [null |-> FALSE, map |-> m]

NoResponse == [pending |-> TRUE]

Raise(type, text) == [raised |-> type, text |-> text]

Result(resp, slots, trace) == [response |-> resp, slots |-> slots, ops |-> trace]

\* ------------------------------------------------------------ the store
\* The three DynamoDB tables behind dynamodb_resource.  ACMEBankCustomer is
\* the set of its keys; the other two are the rows in the order a query
\* returns them.

CustomerIds == {"CUS01", "CUS03"}

AccountRows ==
    { [CustomerIdentifier |-> "CUS01", AccountIdentifier |-> "ACC1", AccountBalance |-> 100],
      [CustomerIdentifier |-> "CUS01", AccountIdentifier |-> "ACC2", AccountBalance |-> 50],
      [CustomerIdentifier |-> "CUS01", AccountIdentifier |-> "ACC3", AccountBalance |-> 0],
      [CustomerIdentifier |-> "CUS03", AccountIdentifier |-> "ACC1", AccountBalance |-> 7] }

TransactionRows ==
    { [AccountIdentifier |-> "ACC1", TransactionIdentifier |-> "T1", Amount |-> 20,
       Date |-> "2024-01-01", Type |-> "TFR"],
      [AccountIdentifier |-> "ACC1", TransactionIdentifier |-> "T2", Amount |-> 5,
       Date |-> "2024-01-02", Type |-> "CW"],
      [AccountIdentifier |-> "ACC2", TransactionIdentifier |-> "T3", Amount |-> 70,
       Date |-> "2024-01-03", Type |-> "DEP"],
      [AccountIdentifier |-> "ACC1", TransactionIdentifier |-> "T4", Amount |-> 1,
       Date |-> "2024-01-04", Type |-> "CR"] }

\* the sequences of exactly n distinct rows of S (a table holds a key once)
RowsOfLen(S, n) == {s \in [1..n -> S] : \A i, j \in 1..n : s[i] = s[j] => i = j}

Stores ==
    { [ACMEBankCustomer |-> c, ACMEBankAccount |-> a, ACMEAccountTransaction |-> t] :
        c \in SUBSET CustomerIds,
        <<a, t>> \in UNION { RowsOfLen(AccountRows, n) \X RowsOfLen(TransactionRows, m) :
                             <<n, m>> \in {p \in (0..MaxRows) \X (0..MaxRows) : p[1] + p[2] <= MaxRows} } }

\* ------------------------------------------------------------ requests

BotNames == {"ACMEBankBot", "OtherBot"}

IntentNames == {"AccountOverview", "ViewTransactionList", "AccountOverviewIntent"}

CustomerValues == {None, "", "CUS01", "CUS03"}

AccountValues == {None, "ACC1", "ACC2"}

SessionValues == {PyNone, PyDict({}), PyDict({<<"lang", "en">>})}

InvocationSources == {"DialogCodeHook", "FulfillmentCodeHook"}

Events ==
    { [bot |-> [name |-> b],
       currentIntent |-> [name |-> n,
                          slots |-> [CustomerIdentifier |-> c, AccountIdentifier |-> a]],
       sessionAttributes |-> s,
       invocationSource |-> i] :
        b \in BotNames, n \in IntentNames, c \in CustomerValues, a \in AccountValues,
        s \in SessionValues, i \in InvocationSources }

\* the assignment dropped
SetSlot_dropped(slots, k, v) == slots

\* the assignment writing every key
SetSlot_every_key(slots, k, v) == [x \in DOMAIN slots |-> v]

\* what a handler leaves in the slots object after an assignment slots[k] = v
SetSlot(slots, k, v) == [slots EXCEPT ![k] = v]

\* ------------------------------------------------------------ AO
\* src/ACMEBankBotAccountOverview.py

AO_elicit_slot(slot_to_elicit, session_attributes, intent_name, slots) ==
    [sessionAttributes |-> session_attributes,
     dialogAction |-> [type |-> "ElicitSlot",
                       intentName |-> intent_name,
                       slots |-> slots,
                       slotToElicit |-> slot_to_elicit]]

AO_defer_next_action_to_chatbot(session_attributes, slots) ==
    [sessionAttributes |-> session_attributes,
     dialogAction |-> [type |-> "Delegate", slots |-> slots]]

AO_validate_customer_identifier(customer_identifier) ==
    LET Count == Cardinality({k \in store.ACMEBankCustomer : k = customer_identifier})
    IN  IF Count = 0 THEN FALSE ELSE TRUE

AO_account_description(account_object) ==
    "The balance in account number " \o account_object.AccountIdentifier
        \o " is £" \o ToString(account_object.AccountBalance)

RECURSIVE AO_overview_loop_no_last(_, _, _, _)
\* the loop with the last-entry test off by one
AO_overview_loop_no_last(account_array, num_accounts, i, response_string) ==
    IF i >= num_accounts THEN response_string
    ELSE LET with_description ==
                 response_string \o AO_account_description(account_array[i + 1])
         IN  AO_overview_loop_no_last(account_array, num_accounts, i + 1,
                 IF i = num_accounts
                 THEN with_description \o ". Is there anything else I can help you with?"
                 ELSE with_description \o ", ")

RECURSIVE AO_overview_loop(_, _, _, _)
\* the for loop of get_account_overview from index i (0-based) on
AO_overview_loop(account_array, num_accounts, i, response_string) ==
    IF i >= num_accounts THEN response_string
    ELSE LET with_description ==
                 response_string \o AO_account_description(account_array[i + 1])
         IN  AO_overview_loop(account_array, num_accounts, i + 1,
                 IF i = num_accounts - 1
                 THEN with_description \o ". Is there anything else I can help you with?"
                 ELSE with_description \o ", ")

get_account_overview(customer_identifier) ==
    LET Items == SelectSeq(store.ACMEBankAccount,
                           LAMBDA item : item.CustomerIdentifier = customer_identifier)
        num_accounts == Len(Items)
    IN  IF num_accounts = 0
        THEN "I could not find any accounts for you on our systems. Is there anything else I can help you with?"
        ELSE AO_overview_loop(Items, num_accounts, 0, "")

AO_close(session_attributes, account_overview) ==
    [sessionAttributes |-> session_attributes,
     dialogAction |-> [type |-> "Close",
                       fulfillmentState |-> "Fulfilled",
                       message |-> [contentType |-> "PlainText",
                                    content |-> account_overview]]]

\* the test always taken
AO_always_dialog_code_hook(invocation_source) == TRUE

\* the test of line 120
AO_is_dialog_code_hook(invocation_source) == invocation_source = "DialogCodeHook"

\* the DialogCodeHook block of lambda_handler: the Result it returns with, or
\* NoResponse when control falls through to the fulfillment code
AO_dialog_code_hook(session_attributes, intent_name, intent_slots) ==
    LET customer_identifier == intent_slots.CustomerIdentifier
    IN  IF customer_identifier = None
        THEN Result(AO_elicit_slot("CustomerIdentifier", session_attributes,
                                   intent_name, intent_slots),
                    intent_slots,
                    <<"isNone:CustomerIdentifier">>)
        ELSE IF ~AO_validate_customer_identifier(customer_identifier)
        THEN LET cleared == SetSlot(intent_slots, "CustomerIdentifier", None)
             IN  Result(AO_defer_next_action_to_chatbot(session_attributes, cleared),
                        cleared,
                        <<"isNone:CustomerIdentifier", "validate:CustomerIdentifier",
                          "clear:CustomerIdentifier">>)
        ELSE Result(NoResponse,
                    intent_slots,
                    <<"isNone:CustomerIdentifier", "validate:CustomerIdentifier">>)

AO_lambda_handler(ev) ==
    LET bot_name == ev.bot.name
        intent_name == ev.currentIntent.name
        session_attributes == ev.sessionAttributes
        intent_slots == ev.currentIntent.slots
        customer_identifier == intent_slots.CustomerIdentifier
        invocation_source == ev.invocationSource
        reads == <<"read:CustomerIdentifier">>
        hook == IF AO_is_dialog_code_hook(invocation_source)
                THEN AO_dialog_code_hook(session_attributes, intent_name, intent_slots)
                ELSE Result(NoResponse, intent_slots, <<>>)
    IN  IF bot_name # "ACMEBankBot"
        THEN Result(Raise("Exception", "This function can only be used with the ACMEBankBot"),
                    intent_slots, <<>>)
        ELSE IF intent_name # "AccountOverview"
        THEN Result(Raise("Exception", "This function can only be used with the AccountOverview intent"),
                    intent_slots, <<>>)
        ELSE IF hook.response # NoResponse
        THEN Result(hook.response, hook.slots, reads \o hook.ops)
        ELSE Result(AO_close(session_attributes, get_account_overview(customer_identifier)),
                    intent_slots,
                    reads \o hook.ops \o <<"query:ACMEBankAccount", "format:accounts">>)

\* ------------------------------------------------------------ TL
\* src/ACMEBankBotTransactionList.py

TL_elicit_slot(slot_to_elicit, session_attributes, intent_name, slots) ==
    [sessionAttributes |-> session_attributes,
     dialogAction |-> [type |-> "ElicitSlot",
                       intentName |-> intent_name,
                       slots |-> slots,
                       slotToElicit |-> slot_to_elicit]]

TL_defer_next_action_to_chatbot(session_attributes, slots) ==
    [sessionAttributes |-> session_attributes,
     dialogAction |-> [type |-> "Delegate", slots |-> slots]]

TL_validate_customer_identifier(customer_identifier) ==
    LET Count == Cardinality({k \in store.ACMEBankCustomer : k = customer_identifier})
    IN  IF Count = 0 THEN FALSE ELSE TRUE

validate_account_identifier(customer_identifier, account_identifier) ==
    LET Items == SelectSeq(store.ACMEBankAccount,
                           LAMBDA item : /\ item.CustomerIdentifier = customer_identifier
                                         /\ item.AccountIdentifier = account_identifier)
        Count == Len(Items)
    IN  IF Count = 0 THEN FALSE ELSE TRUE

transaction_type_description(transaction_type_code) ==
    IF transaction_type_code = "CW" THEN "cash withdrawal"
    ELSE IF transaction_type_code = "TFR" THEN "outbound transfer"
    ELSE "credit"

transaction_description(transaction_object) ==
    "Transaction #" \o transaction_object.TransactionIdentifier
        \o ": " \o transaction_type_description(transaction_object.Type)
        \o " of £" \o ToString(transaction_object.Amount)
        \o " on " \o transaction_object.Date

RECURSIVE TL_summary_loop(_, _, _, _)
\* the for loop of get_transaction_summary from index i (0-based) on
TL_summary_loop(transaction_array, num_transactions, i, response_string) ==
    IF i >= num_transactions THEN response_string
    ELSE LET with_description ==
                 response_string \o transaction_description(transaction_array[i + 1])
         IN  TL_summary_loop(transaction_array, num_transactions, i + 1,
                 IF i = num_transactions - 1
                 THEN with_description \o ". Is there anything else I can help you with?"
                 ELSE with_description \o ", ")

get_transaction_summary(account_identifier) ==
    LET Items == SelectSeq(store.ACMEAccountTransaction,
                           LAMBDA item : item.AccountIdentifier = account_identifier)
        num_transactions == Len(Items)
    IN  IF num_transactions = 0
        THEN "I could not find any transactions for this account on our systems. Is there anything else I can help you with?"
        ELSE TL_summary_loop(Items, num_transactions, 0, "")

TL_close(session_attributes, transaction_summary) ==
    [sessionAttributes |-> session_attributes,
     dialogAction |-> [type |-> "Close",
                       fulfillmentState |-> "Fulfilled",
                       message |-> [contentType |-> "PlainText",
                                    content |-> transaction_summary]]]

\* the test of line 150
TL_is_dialog_code_hook(invocation_source) == invocation_source = "DialogCodeHook"

\* the block with CustomerIdentifier validated before AccountIdentifier is
\* looked at
TL_dialog_code_hook_strict(session_attributes, intent_name, intent_slots) ==
    LET customer_identifier == intent_slots.CustomerIdentifier
        account_identifier == intent_slots.AccountIdentifier
    IN  IF customer_identifier = None
        THEN Result(TL_elicit_slot("CustomerIdentifier", session_attributes,
                                   intent_name, intent_slots),
                    intent_slots,
                    <<"isNone:CustomerIdentifier">>)
        ELSE IF ~TL_validate_customer_identifier(customer_identifier)
        THEN LET cleared == SetSlot(intent_slots, "CustomerIdentifier", None)
             IN  Result(TL_defer_next_action_to_chatbot(session_attributes, cleared),
                        cleared,
                        <<"isNone:CustomerIdentifier", "validate:CustomerIdentifier",
                          "clear:CustomerIdentifier">>)
        ELSE IF account_identifier = None
        THEN Result(TL_elicit_slot("AccountIdentifier", session_attributes,
                                   intent_name, intent_slots),
                    intent_slots,
                    <<"isNone:CustomerIdentifier", "validate:CustomerIdentifier",
                      "isNone:AccountIdentifier">>)
        ELSE IF ~validate_account_identifier(customer_identifier, account_identifier)
        THEN LET cleared == SetSlot(intent_slots, "AccountIdentifier", None)
             IN  Result(TL_defer_next_action_to_chatbot(session_attributes, cleared),
                        cleared,
                        <<"isNone:CustomerIdentifier", "validate:CustomerIdentifier",
                          "isNone:AccountIdentifier", "validate:AccountIdentifier",
                          "clear:AccountIdentifier">>)
        ELSE Result(NoResponse,
                    intent_slots,
                    <<"isNone:CustomerIdentifier", "validate:CustomerIdentifier",
                      "isNone:AccountIdentifier", "validate:AccountIdentifier">>)

\* the DialogCodeHook block of lambda_handler: the Result it returns with, or
\* NoResponse when control falls through to the fulfillment code
TL_dialog_code_hook(session_attributes, intent_name, intent_slots) ==
    LET customer_identifier == intent_slots.CustomerIdentifier
        account_identifier == intent_slots.AccountIdentifier
    IN  IF customer_identifier = None
        THEN Result(TL_elicit_slot("CustomerIdentifier", session_attributes,
                                   intent_name, intent_slots),
                    intent_slots,
                    <<"isNone:CustomerIdentifier">>)
        ELSE IF account_identifier = None
        THEN Result(TL_elicit_slot("AccountIdentifier", session_attributes,
                                   intent_name, intent_slots),
                    intent_slots,
                    <<"isNone:CustomerIdentifier", "isNone:AccountIdentifier">>)
        ELSE IF ~TL_validate_customer_identifier(customer_identifier)
        THEN LET cleared == SetSlot(intent_slots, "CustomerIdentifier", None)
             IN  Result(TL_defer_next_action_to_chatbot(session_attributes, cleared),
                        cleared,
                        <<"isNone:CustomerIdentifier", "isNone:AccountIdentifier",
                          "validate:CustomerIdentifier", "clear:CustomerIdentifier">>)
        ELSE IF ~validate_account_identifier(customer_identifier, account_identifier)
        THEN LET cleared == SetSlot(intent_slots, "AccountIdentifier", None)
             IN  Result(TL_defer_next_action_to_chatbot(session_attributes, cleared),
                        cleared,
                        <<"isNone:CustomerIdentifier", "isNone:AccountIdentifier",
                          "validate:CustomerIdentifier", "validate:AccountIdentifier",
                          "clear:AccountIdentifier">>)
        ELSE Result(NoResponse,
                    intent_slots,
                    <<"isNone:CustomerIdentifier", "isNone:AccountIdentifier",
                      "validate:CustomerIdentifier", "validate:AccountIdentifier">>)

TL_lambda_handler(ev) ==
    LET bot_name == ev.bot.name
        intent_name == ev.currentIntent.name
        session_attributes == ev.sessionAttributes
        intent_slots == ev.currentIntent.slots
        account_identifier == intent_slots.AccountIdentifier
        invocation_source == ev.invocationSource
        reads == <<"read:CustomerIdentifier", "read:AccountIdentifier">>
        hook == IF TL_is_dialog_code_hook(invocation_source)
                THEN TL_dialog_code_hook(session_attributes, intent_name, intent_slots)
                ELSE Result(NoResponse, intent_slots, <<>>)
    IN  IF bot_name # "ACMEBankBot"
        THEN Result(Raise("Exception", "This function can only be used with the ACMEBankBot"),
                    intent_slots, <<>>)
        ELSE IF intent_name # "ViewTransactionList"
        THEN Result(Raise("Exception", "This function can only be used with the ViewTransactionList intent"),
                    intent_slots, <<>>)
        ELSE IF hook.response # NoResponse
        THEN Result(hook.response, hook.slots, reads \o hook.ops)
        ELSE Result(TL_close(session_attributes, get_transaction_summary(account_identifier)),
                    intent_slots,
                    reads \o hook.ops \o <<"query:ACMEAccountTransaction", "format:transactions">>)

\* ------------------------------------------------------------ VF
\* src/AccountOverviewIntent_ValidationFunction.py

VF_elicit_slot(session_attributes, intent_name, slots, slot_to_elicit, message) ==
    [sessionAttributes |-> session_attributes,
     dialogAction |-> [type |-> "ElicitSlot",
                       intentName |-> intent_name,
                       slots |-> slots,
                       slotToElicit |-> slot_to_elicit,
                       message |-> message]]

delegate(session_attributes, slots) ==
    [sessionAttributes |-> session_attributes,
     dialogAction |-> [type |-> "Delegate", slots |-> slots]]

build_validation_result(is_valid, violated_slot, message_content) ==
    IF message_content = None
    THEN [isValid |-> is_valid, violatedSlot |-> violated_slot]
    ELSE [isValid |-> is_valid,
          violatedSlot |-> violated_slot,
          message |-> [contentType |-> "PlainText", content |-> message_content]]

\* len(None) raises TypeError before any result is built
VF_validate_customer_identifier(customer_identifier) ==
    IF customer_identifier = None
    THEN Raise("TypeError", "object of type 'NoneType' has no len()")
    ELSE IF Len(customer_identifier) = 0
    THEN build_validation_result(FALSE, "CustomerIdentifier",
             "The customer identifier you have provided is invalid. Please try again.")
    ELSE IF customer_identifier # "CUS01" /\ customer_identifier # "CUS02"
    THEN build_validation_result(FALSE, "CustomerIdentifier",
             "The customer identifier you have provided is invalid. Please try again.")
    ELSE build_validation_result(TRUE, None, None)

\* the test of line 73
VF_not_supported(bot_name, intent_name) ==
    bot_name # "ACMEBankBot" /\ intent_name # "AccountOverviewIntent"

\* line 86-88
VF_session_attributes(ev) ==
    IF ev.sessionAttributes.null THEN PyDict({}) ELSE ev.sessionAttributes

VF_lambda_handler(ev) ==
    LET bot_name == ev.bot.name
        intent_name == ev.currentIntent.name
        intent_slots == ev.currentIntent.slots
        customer_identifier == intent_slots.CustomerIdentifier
        session_attributes == VF_session_attributes(ev)
        validation_result == VF_validate_customer_identifier(customer_identifier)
        trace == <<"read:CustomerIdentifier", "validate:CustomerIdentifier">>
    IN  IF VF_not_supported(bot_name, intent_name)
        THEN Result(Raise("Exception", "Intent " \o intent_name \o " not supported."),
                    intent_slots, <<>>)
        ELSE IF "raised" \in DOMAIN validation_result
        THEN Result(validation_result, intent_slots, trace)
        ELSE IF ~validation_result.isValid
        THEN LET cleared == SetSlot(intent_slots, validation_result.violatedSlot, None)
             IN  Result(VF_elicit_slot(session_attributes, intent_name, cleared,
                                       validation_result.violatedSlot,
                                       validation_result.message),
                        cleared,
                        trace \o <<"clear:" \o validation_result.violatedSlot>>)
        \* output_session_attributes is assigned nowhere: evaluating the
        \* argument of delegate(...) raises NameError
        ELSE Result(Raise("NameError", "name 'output_session_attributes' is not defined"),
                    intent_slots, trace)

\* ------------------------------------------------------------ the machine

Init ==
    /\ fn \in {"AO", "TL", "VF"}
    /\ store \in Stores
    /\ event \in Events
    /\ request = event
    /\ response = NoResponse
    /\ ops = <<>>

\* one invocation of the deployed function on the request object: the
\* handler's return value or exception, and its writes into the slots object
Invoke(r) ==
    /\ request' = event
    /\ response' = r.response
    /\ ops' = r.ops
    /\ event' = [event EXCEPT !.currentIntent.slots = r.slots]
    /\ UNCHANGED <<fn, store>>

AccountOverview == fn = "AO" /\ Invoke(AO_lambda_handler(event))

TransactionList == fn = "TL" /\ Invoke(TL_lambda_handler(event))

ValidationFunction == fn = "VF" /\ Invoke(VF_lambda_handler(event))

Next == AccountOverview \/ TransactionList \/ ValidationFunction

Spec == Init /\ [][Next]_vars

\* ------------------------------------------------------------ vocabulary of the properties
\* `request` is the turn as the last invocation received it, `response` what
\* that invocation produced.  Validity of a slot value is stated here from
\* the store and the allow-list, not through the handlers' validators.

Handled == response # NoResponse

ConfiguredIntent ==
    CASE fn = "AO" -> "AccountOverview"
      [] fn = "TL" -> "ViewTransactionList"
      [] fn = "VF" -> "AccountOverviewIntent"

Routed ==
    /\ request.bot.name = "ACMEBankBot"
    /\ request.currentIntent.name = ConfiguredIntent

ValidationPhase == request.invocationSource = "DialogCodeHook"

FulfillmentPhase == request.invocationSource = "FulfillmentCodeHook"

InSlots == request.currentIntent.slots

RequiredSlots ==
    IF fn = "TL" THEN <<"CustomerIdentifier", "AccountIdentifier">>
    ELSE <<"CustomerIdentifier">>

Absent(s) == InSlots[s] = None

AllPresent == \A i \in 1..Len(RequiredSlots) : ~Absent(RequiredSlots[i])

\* the value of slot s passes the rule of the deployed function
PassesValidation(s) ==
    IF s = "CustomerIdentifier"
    THEN IF fn = "VF"
         THEN InSlots[s] \in {"CUS01", "CUS02"}
         ELSE InSlots[s] \in store.ACMEBankCustomer
    ELSE \E i \in 1..Len(store.ACMEBankAccount) :
            /\ store.ACMEBankAccount[i].CustomerIdentifier = InSlots.CustomerIdentifier
            /\ store.ACMEBankAccount[i].AccountIdentifier = InSlots.AccountIdentifier

\* index of the first required slot, in declared order, that is absent or
\* fails validation; 0 when every required slot is present and valid
WalkProblem ==
    LET bad == {i \in 1..Len(RequiredSlots) :
                    Absent(RequiredSlots[i]) \/ ~PassesValidation(RequiredSlots[i])}
    IN  IF bad = {} THEN 0 ELSE CHOOSE i \in bad : \A j \in bad : i <= j

FirstAbsent ==
    LET gone == {i \in 1..Len(RequiredSlots) : Absent(RequiredSlots[i])}
    IN  IF gone = {} THEN 0 ELSE CHOOSE i \in gone : \A j \in gone : i <= j

\* AO and TL hand every slot value they use to a DynamoDB key condition; the
\* statements about them cover values a key condition can hold (not "")
KeysUsable == fn = "VF" \/ InSlots.CustomerIdentifier # ""

IsDialogAction == "dialogAction" \in DOMAIN response

Raised == "raised" \in DOMAIN response

IsElicit == IsDialogAction /\ response.dialogAction.type = "ElicitSlot"

IsDelegate == IsDialogAction /\ response.dialogAction.type = "Delegate"

IsClose == IsDialogAction /\ response.dialogAction.type = "Close"

HasMessage == IsDialogAction /\ "message" \in DOMAIN response.dialogAction

OutSlots == response.dialogAction.slots

RejectionMessage ==
    "The customer identifier you have provided is invalid. Please try again."

\* the last invocation took the step
Did(step) == \E i \in 1..Len(ops) : ops[i] = step

\* an ElicitSlot for slot s that carries a non-empty message and has s cleared
ElicitsWithRejection(s) ==
    /\ IsElicit
    /\ response.dialogAction.slotToElicit = s
    /\ HasMessage
    /\ response.dialogAction.message.content # ""
    /\ OutSlots[s] = None

\* a Delegate without message that has s cleared
DelegatesWithCleared(s) ==
    /\ IsDelegate
    /\ ~HasMessage
    /\ OutSlots[s] = None

\* ------------------------------------------------------------ C1

C2_ValidTurnDelegates ==
    (Handled /\ Routed /\ ValidationPhase /\ WalkProblem = 0)
    => /\ IsDelegate
       /\ OutSlots = InSlots
       /\ ~Did("query:ACMEBankAccount")
       /\ ~Did("query:ACMEAccountTransaction")
       /\ ~Did("format:accounts")
       /\ ~Did("format:transactions")

\* ------------------------------------------------------------ C3

\* C3 as stated: for every handler and every Validation-phase turn with a
\* required slot absent, the response is an ElicitSlot for the first absent
\* slot in declared order, without message, and the emitted slot mapping
\* equals the inbound one.
C3_AbsentSlotElicited ==
    (Handled /\ Routed /\ ValidationPhase /\ FirstAbsent # 0)
    => /\ IsElicit
       /\ response.dialogAction.slotToElicit = RequiredSlots[FirstAbsent]
       /\ ~HasMessage
       /\ OutSlots = InSlots

\* ------------------------------------------------------------ C4

\* C4 as stated: in every handler a bot name other than 'ACMEBankBot' or an
\* intent name other than the configured one (either alone) aborts the turn
\* with the fatal error: no Dialog Action, no slot read or validated.
C4_MismatchIsFatal ==
    (Handled /\ ~Routed)
    => /\ Raised
       /\ response.raised = "Exception"
       /\ ~IsDialogAction
       /\ ops = <<>>

\* ------------------------------------------------------------ C5

NoValidationDone ==
    /\ ~Did("validate:CustomerIdentifier")
    /\ ~Did("validate:AccountIdentifier")
    /\ ~Did("clear:CustomerIdentifier")
    /\ ~Did("clear:AccountIdentifier")
    /\ event.currentIntent.slots = InSlots

\* the slot value the fulfillment code queries the store with
FulfillmentKey ==
    IF fn = "TL" THEN InSlots.AccountIdentifier ELSE InSlots.CustomerIdentifier

C6_SessionAttributesDefaulted ==
    (Handled /\ IsDialogAction)
    => response.sessionAttributes =
           (IF request.sessionAttributes.null THEN PyDict({})
            ELSE request.sessionAttributes)

\* ------------------------------------------------------------ C7

FinalSentence == ". Is there anything else I can help you with?"

\* the entries joined by ", "
RECURSIVE JoinedByComma(_)
JoinedByComma(entries) ==
    IF Len(entries) = 1 THEN Head(entries)
    ELSE Head(entries) \o ", " \o JoinedByComma(Tail(entries))

AccountsReturned ==
    SelectSeq(store.ACMEBankAccount,
              LAMBDA row : row.CustomerIdentifier = InSlots.CustomerIdentifier)

TransactionsReturned ==
    SelectSeq(store.ACMEAccountTransaction,
              LAMBDA row : row.AccountIdentifier = InSlots.AccountIdentifier)

AccountEntry(row) ==
    "The balance in account number " \o row.AccountIdentifier
        \o " is £" \o ToString(row.AccountBalance)

TransactionLabel(code) ==
    CASE code = "CW" -> "cash withdrawal"
      [] code = "TFR" -> "outbound transfer"
      [] OTHER -> "credit"

TransactionEntry(row) ==
    "Transaction #" \o row.TransactionIdentifier \o ": " \o TransactionLabel(row.Type)
        \o " of £" \o ToString(row.Amount) \o " on " \o row.Date

ExpectedOverview ==
    IF AccountsReturned = <<>>
    THEN "I could not find any accounts for you on our systems. Is there anything else I can help you with?"
    ELSE JoinedByComma([i \in 1..Len(AccountsReturned) |-> AccountEntry(AccountsReturned[i])])
            \o FinalSentence

ExpectedSummary ==
    IF TransactionsReturned = <<>>
    THEN "I could not find any transactions for this account on our systems. Is there anything else I can help you with?"
    ELSE JoinedByComma([i \in 1..Len(TransactionsReturned) |-> TransactionEntry(TransactionsReturned[i])])
            \o FinalSentence

ScenarioB ==
    "The balance in account number ACC1 is £100, The balance in account number ACC2 is £50. Is there anything else I can help you with?"

ScenarioC ==
    "Transaction #T1: outbound transfer of £20 on 2024-01-01. Is there anything else I can help you with?"

Content == response.dialogAction.message.content

\* C8: the text of a Close is the fixed 'could not find' sentence when the
\* store returned no record, and otherwise the rendered records in the
\* returned order, joined by ", " and followed once by the final sentence
\* (scenarios B and C of the specification word for word).
C8_FormatterText ==
    (Handled /\ IsClose)
    => /\ fn = "AO" => Content = ExpectedOverview
       /\ fn = "TL" => Content = ExpectedSummary
       /\ (fn = "AO" /\ Len(AccountsReturned) = 2
              /\ AccountsReturned[1].AccountIdentifier = "ACC1"
              /\ AccountsReturned[2].AccountIdentifier = "ACC2")
          => Content = ScenarioB
       /\ (fn = "TL" /\ Len(TransactionsReturned) = 1
              /\ TransactionsReturned[1].TransactionIdentifier = "T1")
          => Content = ScenarioC

\* AO renders two accounts: scenario B
C8_Witness ==
    /\ Handled /\ IsClose /\ fn = "AO"
    /\ Len(AccountsReturned) = 2
    /\ Content = ScenarioB

\* ------------------------------------------------------------ C9

\* the response is about slot s: it elicits s, or it delegates with s cleared
Concerns(s) ==
    \/ IsElicit /\ response.dialogAction.slotToElicit = s
    \/ IsDelegate /\ OutSlots[s] = None /\ InSlots[s] # None

C10_SecondInvocationSameOutcome ==
    [][Handled => response' = response]_vars

====
